---- MODULE Spec2Model ----
(***************************************************************************)
(* Credential and session lifecycle of poufmaker-api: registration, login, *)
(* bearer-token verification and the ownership gate of the product,        *)
(* conversation and message handlers.  Every route handler is one action   *)
(* (the whole handler, all of its store calls); the store is the MySQL     *)
(* schema of prisma/schema.prisma.  Overlapping requests are the           *)
(* exception: a register handler is then two steps, its lookup and the     *)
(* rest, and an ownership-restricted handler is two steps, its checks and  *)
(* the store calls after them.  Time is counted in whole seconds, the      *)
(* resolution of the iat/exp claims of a JWT.                              *)
(*                                                                         *)
(* Left out of the rows: IpAddress, UserAgent, PhoneNumber,                *)
(* ConfirmationToken, UpdatedAt (request metadata and columns no handler   *)
(* reads back).  Emails are short enough for a signed token to fit the     *)
(* VarChar(255) Token column.                                              *)
(***************************************************************************)
EXTENDS Integers, Sequences, FiniteSets, TLC

\* ---------------------------------------------------------------- bounds
\* requests that change a table, and clock steps, in one run
MaxWrites == 4

\* requests between their lookup and their write at one time
MaxInflight == 2

\* ------------------------------------------------------ program constants
RegisterTokenTTL == 3600
RegisterSessionTTL == 3600
LoginTokenTTL == 86400
LoginSessionTTL == 86400
MinPasswordLen == 8
MinPasswordLenV1 == 6

\* ------------------------------------------------------------ input sets
Undefined == 0
NullId == -1

WellFormedEmails == {"al@x.io", "bo@x.io"}
Emails == WellFormedEmails \cup {"not-an-email"}
Passwords == {"Secret123", "abcdef1", ""}
FullNames == {"Al", ""}
RoleEnum == {"client", "admin", "upholsterer"}
RoleInputs == {"", "admin", "root"}
TickSteps == {1, LoginTokenTTL}

ConfiguredSecret == "k1"
AttackerKey == "k0"

\* ------------------------------------------------------------- the state
VARIABLES
  users,          \* table users, in insertion order
  usersessions,   \* table usersessions, in insertion order
  userloginhistory, \* table userloginhistory, in insertion order
  products,       \* table products (set of rows)
  conversations,  \* table conversations (set of rows)
  messages,       \* table messages, in insertion order
  created,        \* number of product and conversation ids handed out so far
  wallet,         \* tokens that responses have handed to clients
  now,            \* the clock, in seconds
  writes,         \* number of requests that wrote to a table, and clock steps
  jwtSecret,      \* process.env.JWT_SECRET ("" when unset)
  storeFaults,    \* whether store calls may fail in this run
  inflight,       \* register requests between their lookup and their create
  lastResp        \* the last request handled and its response

vars ==
  <<users, usersessions, userloginhistory, products, conversations, messages,
    created, wallet, now, writes, jwtSecret, storeFaults, inflight, lastResp>>

\* ---------------------------------------------------------------- tokens
\* A JWT: the payload fields the issuers write (a field an issuer does not
\* write is Undefined / ""), the iat and exp claims, and the key that signed it.
NoToken ==
  [sub |-> Undefined, userId |-> Undefined, email |-> "", role |-> "",
   iat |-> 0, exp |-> 0, key |-> "absent"]

Malformed == [NoToken EXCEPT !.key = "malformed"]

\* jwt.sign(payload, secret, {expiresIn}) at second t
jwt_sign(payload, secret, ttl, t) ==
  [sub |-> payload.sub, userId |-> payload.userId, email |-> payload.email,
   role |-> payload.role, iat |-> t, exp |-> t + ttl, key |-> secret]

\* jwt.sign throws when the secret is the empty string
jwt_sign_throws(secret) == secret = ""

\* jwt.verify(token, secret): signature, then expiry (expired once now >= exp)
jwt_verify_ok(token, secret, t) ==
  /\ secret # ""
  /\ token.key = secret
  /\ t < token.exp

\* a verification that also asks the session table for a live row of the token
verifyToken_withRegistry(token, secret, t) ==
  /\ jwt_verify_ok(token, secret, t)
  /\ \E i \in 1..Len(usersessions) :
       usersessions[i].Token = token /\ t < usersessions[i].ExpiresAt

\* verifyToken(request): the decoded payload, or the throw "Invalid token"
verifyToken_ok(token, secret, t) ==
  /\ token.key # "absent"
  /\ jwt_verify_ok(token, secret, t)

\* ------------------------------------------------------ password hashing
bcrypt_hash(password, salt) == [salt |-> salt, digest |-> password]

bcrypt_compare(password, hash) == bcrypt_hash(password, hash.salt) = hash

\* ----------------------------------------------------------- responses
BlankResp ==
  [op |-> "none", handler |-> "", status |-> 0, error |-> "",
   token |-> NoToken, userId |-> Undefined, role |-> "",
   email |-> "", password |-> "", wellFormed |-> FALSE, fault |-> 0,
   preUsers |-> 0, preSessions |-> 0, preHistory |-> 0,
   presented |-> NoToken, bearer |-> Undefined, sub |-> Undefined,
   decodedRole |-> "", target |-> 0, existed |-> FALSE, owner |-> NullId,
   verdict |-> "", userFields |-> {}, scheme |-> "",
   listed |-> {}, total |-> 0, bodyOwner |-> Undefined]

\* the request part of a response record of an auth handler
AuthResp(op, handler, body, ok, fault) ==
  [BlankResp EXCEPT !.op = op, !.handler = handler, !.email = body.Email,
     !.password = body.Password, !.wellFormed = ok, !.fault = fault,
     !.preUsers = Len(users), !.preSessions = Len(usersessions),
     !.preHistory = Len(userloginhistory)]

InitTables ==
  /\ users = <<>>
  /\ usersessions = <<>>
  /\ userloginhistory = <<>>
  /\ products = {}
  /\ conversations = {}
  /\ messages = <<>>
  /\ created = 0
  /\ wallet = {}
  /\ now = 0
  /\ writes = 0
  /\ inflight = {}
  /\ lastResp = BlankResp

Init == InitTables /\ jwtSecret = ConfiguredSecret /\ storeFaults = FALSE

InitFault == InitTables /\ jwtSecret = ConfiguredSecret /\ storeFaults = TRUE

\* the server started without JWT_SECRET in its environment
InitKey == InitTables /\ jwtSecret = "" /\ storeFaults = FALSE

\* the server takes a request once the response to the last one has left
Idle == lastResp.op = "none"

\* a store call may throw only in a run with store faults; fault is the
\* ordinal of the handler's store call that throws (0: none does)
FaultAllowed(fault, calls) ==
  /\ Idle
  /\ fault \in 0..calls
  /\ fault # 0 => storeFaults

\* ------------------------------------------------------------ store calls
\* a lookup that never finds the row
users_findUnique_blind(Email) == {}

\* prisma.users.findUnique({where: {Email}}): the row, as a set of 0 or 1 rows
users_findUnique(Email) == {users[i] : i \in {j \in 1..Len(users) : users[j].Email = Email}}

\* a users table without the unique index
Email_taken_unindexed(rows, Email) == FALSE

\* the unique index on users.Email rejects a second row with the email
Email_taken(rows, Email) == \E i \in 1..Len(rows) : rows[i].Email = Email

\* the unique index on usersessions.Token rejects a second row with the token
Token_taken(rows, token) == \E i \in 1..Len(rows) : rows[i].Token = token

SessionRow(userId, token, ttl) ==
  [UserId |-> userId, Token |-> token, ExpiresAt |-> now + ttl, CreatedAt |-> now]

HistoryRow(userId, successful, reason) ==
  [UserId |-> userId, Successful |-> successful, FailureReason |-> reason]

\* a session write that replaces the session the user already has
usersessions_upsert(rows, row) ==
  IF \E i \in 1..Len(rows) : rows[i].UserId = row.UserId
  THEN [i \in 1..Len(rows) |-> IF rows[i].UserId = row.UserId THEN row ELSE rows[i]]
  ELSE Append(rows, row)

\* prisma.usersessions.create({data}): a new row, no existing row is touched
usersessions_create(rows, row) == Append(rows, row)

\* prisma.userloginhistory.create({data}): a new row
userloginhistory_create(rows, row) == Append(rows, row)

\* an outcome of an auth handler: the tables after it, and its response
Outcome(u, s, h, w, resp) ==
  [users |-> u, usersessions |-> s, userloginhistory |-> h, wallet |-> w,
   resp |-> resp]

CommitTables(o) ==
  LET wrote == <<o.users, o.usersessions, o.userloginhistory>>
                 # <<users, usersessions, userloginhistory>>
  IN
  /\ wrote => writes < MaxWrites
  /\ writes' = IF wrote THEN writes + 1 ELSE writes
  /\ users' = o.users
  /\ usersessions' = o.usersessions
  /\ userloginhistory' = o.userloginhistory
  /\ wallet' = o.wallet
  /\ lastResp' = o.resp
  /\ UNCHANGED <<products, conversations, messages, created, now, jwtSecret,
                 storeFaults>>

Commit(o) == CommitTables(o) /\ UNCHANGED inflight

UserRow(id, Email, FullName, Role, Password) ==
  [Id |-> id, Email |-> Email, FullName |-> FullName, Role |-> Role,
   PasswordHash |-> bcrypt_hash(Password, id), LastLoginDate |-> NullId]

\* a response that hands the user row out as the store returned it
ResponseUser_wholeRow(user) == user

\* the `user` object of the register and login responses
ResponseUser(user) ==
  [id |-> user.Id, email |-> user.Email, fullName |-> user.FullName,
   role |-> user.Role]

\* the `user` object of the response of the login handler with the camelCase body
ResponseUserV1(user) ==
  [Id |-> user.Id, Email |-> user.Email, FullName |-> user.FullName,
   Role |-> user.Role]

\* `select: {Id, FullName, Email}` of the users relation a resource response includes
IncludedUser(user) ==
  [Id |-> user.Id, FullName |-> user.FullName, Email |-> user.Email]

\* ------------------------------------------- POST /api/auth/register
\* transformedBody: `body.X || body.x`, and Role falls back to "client"
transformedRole(Role) == IF Role = "" THEN "client" ELSE Role

\* registerSchema.parse(transformedBody): "" when it passes, else errors[0].message
registerSchema_error(body) ==
  IF body.Email \notin WellFormedEmails THEN "Invalid email format"
  ELSE IF body.Password = "" THEN "Required"
  ELSE IF Len(body.Password) < MinPasswordLen THEN "Password must be at least 8 characters"
  ELSE IF body.FullName = "" THEN "Required"
  ELSE IF transformedRole(body.Role) \notin RoleEnum THEN "Invalid enum value"
  ELSE ""

\* the register handler that issues a token, from prisma.users.create on
RegisterStore(body, fault) ==
  LET req      == AuthResp("register", "register:token", body, TRUE, 0)
      id       == Len(users) + 1
      user     == UserRow(id, body.Email, body.FullName, transformedRole(body.Role),
                          body.Password)
      users1   == Append(users, user)
      token    == jwt_sign([sub |-> user.Id, userId |-> Undefined, email |-> "",
                            role |-> user.Role],
                           jwtSecret, RegisterTokenTTL, now)
      sess1    == usersessions_create(usersessions,
                                      SessionRow(user.Id, token, RegisterSessionTTL))
      hist1    == userloginhistory_create(userloginhistory,
                                          HistoryRow(user.Id, TRUE, ""))
      fail(u, s, h, f) ==
        Outcome(u, s, h, wallet,
                [req EXCEPT !.status = 500, !.error = "Internal server error",
                            !.fault = f])
  IN
  IF fault = 2 \/ Email_taken(users, body.Email) THEN
    fail(users, usersessions, userloginhistory, IF fault = 2 THEN 2 ELSE 0)
  ELSE IF jwt_sign_throws(jwtSecret) THEN fail(users1, usersessions, userloginhistory, 0)
  ELSE IF fault = 3 \/ Token_taken(usersessions, token) THEN
    fail(users1, usersessions, userloginhistory, IF fault = 3 THEN 3 ELSE 0)
  ELSE IF fault = 4 THEN fail(users1, sess1, userloginhistory, 4)
  ELSE
    Outcome(users1, sess1, hist1,
            wallet \cup {[token |-> token, issuedTo |-> user.Id]},
            [req EXCEPT !.status = 201, !.token = token, !.userId = user.Id,
                        !.role = user.Role,
                        !.userFields = DOMAIN ResponseUser(user)])

\* the handler of the register route that issues a token
Register(body, fault) ==
  LET err      == registerSchema_error(body)
      req      == AuthResp("register", "register:token", body, err = "", 0)
      existing == users_findUnique(body.Email)
  IN
  IF err # "" THEN
    Outcome(users, usersessions, userloginhistory, wallet,
            [req EXCEPT !.status = 400, !.error = err])
  ELSE IF fault = 1 THEN
    Outcome(users, usersessions, userloginhistory, wallet,
            [req EXCEPT !.status = 500, !.error = "Internal server error",
                        !.fault = 1])
  ELSE IF existing # {} THEN
    Outcome(users, usersessions, userloginhistory, wallet,
            [req EXCEPT !.status = 400, !.error = "Email already registered"])
  ELSE RegisterStore(body, fault)

RegisterPOST(body, fault) ==
  /\ FaultAllowed(fault, 4)
  /\ Commit(Register(body, fault))

\* registerSchema of the register route without a token (camelCase body)
registerSchemaV1_error(body) ==
  IF body.FullName = "" THEN "Full name is required"
  ELSE IF body.Email \notin WellFormedEmails THEN "Invalid email format"
  ELSE IF Len(body.Password) < MinPasswordLenV1 THEN "Password must be at least 6 characters"
  ELSE ""

\* the register handler without a token, from prisma.users.create on
RegisterStoreV1(body, fault) ==
  LET req  == AuthResp("register", "register:plain", body, TRUE, 0)
      id   == Len(users) + 1
      user == UserRow(id, body.Email, body.FullName, "client", body.Password)
  IN
  \* `error instanceof Error`: the thrown error's own message, as a 400
  IF fault = 2 \/ Email_taken(users, body.Email) THEN
    Outcome(users, usersessions, userloginhistory, wallet,
            [req EXCEPT !.status = 400, !.error = "store error text",
                        !.fault = IF fault = 2 THEN 2 ELSE 0])
  ELSE
    Outcome(Append(users, user), usersessions, userloginhistory, wallet,
            [req EXCEPT !.status = 201, !.userId = user.Id, !.role = user.Role,
                        !.userFields = DOMAIN ResponseUser(user)])

\* the handler of the register route that creates the user row only
RegisterV1(body, fault) ==
  LET err      == registerSchemaV1_error(body)
      req      == AuthResp("register", "register:plain", body, err = "", 0)
      existing == users_findUnique(body.Email)
  IN
  IF err # "" THEN
    Outcome(users, usersessions, userloginhistory, wallet,
            [req EXCEPT !.status = 400, !.error = err])
  ELSE IF fault = 1 THEN
    Outcome(users, usersessions, userloginhistory, wallet,
            [req EXCEPT !.status = 400, !.error = "store error text", !.fault = 1])
  ELSE IF existing # {} THEN
    Outcome(users, usersessions, userloginhistory, wallet,
            [req EXCEPT !.status = 400,
                        !.error = "User with this email already exists"])
  ELSE RegisterStoreV1(body, fault)

RegisterPOST_V1(body, fault) ==
  /\ FaultAllowed(fault, 2)
  /\ Commit(RegisterV1(body, fault))

\* Two requests in flight: a register request that has run its validation
\* and its findUnique, and found no row, waits for its create while other
\* requests run.
RegisterLookup(body, route) ==
  /\ Idle
  /\ Cardinality(inflight) < MaxInflight
  /\ [body |-> body, route |-> route] \notin inflight
  /\ IF route = "register:token" THEN registerSchema_error(body) = ""
                                  ELSE registerSchemaV1_error(body) = ""
  /\ users_findUnique(body.Email) = {}
  /\ inflight' = inflight \cup {[body |-> body, route |-> route]}
  /\ UNCHANGED <<users, usersessions, userloginhistory, products, conversations,
                 messages, created, wallet, now, writes, jwtSecret, storeFaults,
                 lastResp>>

RegisterCreate(p) ==
  /\ Idle
  /\ p \in inflight
  /\ CommitTables(IF p.route = "register:token" THEN RegisterStore(p.body, 0)
                                                ELSE RegisterStoreV1(p.body, 0))
  /\ inflight' = inflight \ {p}

\* the pages-API register `handler`: it calls prisma.user, a model the schema
\* does not have, so its first store call throws and its catch answers 400
handler(body) ==
  /\ Idle
  /\ Commit(Outcome(users, usersessions, userloginhistory, wallet,
                    [AuthResp("register", "register:pages", body, TRUE, 0)
                       EXCEPT !.status = 400, !.error = "Something went wrong"]))

\* ---------------------------------------------- POST /api/auth/login
\* loginSchema.parse(body): "" when it passes, else errors[0].message
loginSchema_error(body) ==
  IF body.Email \notin WellFormedEmails THEN "Invalid email format"
  ELSE IF Len(body.Password) < 1 THEN "Password is required"
  ELSE ""

\* prisma.users.update({where: {Id}, data: {LastLoginDate: new Date()}})
users_touch(rows, id) ==
  [i \in 1..Len(rows) |->
     IF rows[i].Id = id THEN [rows[i] EXCEPT !.LastLoginDate = now] ELSE rows[i]]

\* the rows the login handler leaves in userloginhistory after a wrong password
historyAfterWrongPassword(rows, userId) ==
  userloginhistory_create(rows, HistoryRow(userId, FALSE, "Invalid password"))

\* a 401 that also stamps the last-login date of every user
LoginDenied_touching(req, h) ==
  Outcome([i \in 1..Len(users) |-> [users[i] EXCEPT !.LastLoginDate = now]],
          usersessions, h, wallet,
          [req EXCEPT !.status = 401, !.error = "Invalid credentials"])

\* the 401 of the login handler: `Invalid credentials`, for an unknown email
\* and for a wrong password alike; h is the login history it leaves
LoginDenied(req, h) ==
  Outcome(users, usersessions, h, wallet,
          [req EXCEPT !.status = 401, !.error = "Invalid credentials"])

\* the login handler with the PascalCase body (Email, Password)
Login(body, fault) ==
  LET err   == loginSchema_error(body)
      req   == AuthResp("login", "login:pascal", body, err = "", 0)
      found == users_findUnique(body.Email)
      user  == CHOOSE u \in found : TRUE
      token == jwt_sign([sub |-> Undefined, userId |-> user.Id,
                         email |-> user.Email, role |-> user.Role],
                        jwtSecret, LoginTokenTTL, now)
      sess1 == usersessions_create(usersessions, SessionRow(user.Id, token, LoginSessionTTL))
      hist1 == userloginhistory_create(userloginhistory, HistoryRow(user.Id, TRUE, ""))
      fail(u, s, h, f) ==
        Outcome(u, s, h, wallet,
                [req EXCEPT !.status = 500, !.error = "Internal server error",
                            !.fault = f])
      denied(h) == LoginDenied(req, h)
  IN
  IF err # "" THEN
    Outcome(users, usersessions, userloginhistory, wallet,
            [req EXCEPT !.status = 400, !.error = err])
  ELSE IF fault = 1 THEN fail(users, usersessions, userloginhistory, 1)
  ELSE IF found = {} THEN denied(userloginhistory)
  ELSE IF ~bcrypt_compare(body.Password, user.PasswordHash) THEN
    IF fault = 2 THEN fail(users, usersessions, userloginhistory, 2)
    ELSE denied(historyAfterWrongPassword(userloginhistory, user.Id))
  ELSE IF jwt_sign_throws(jwtSecret) THEN fail(users, usersessions, userloginhistory, 0)
  ELSE IF fault = 3 \/ Token_taken(usersessions, token) THEN
    fail(users, usersessions, userloginhistory, IF fault = 3 THEN 3 ELSE 0)
  ELSE IF fault = 4 THEN fail(users, sess1, userloginhistory, 4)
  ELSE IF fault = 5 THEN fail(users, sess1, hist1, 5)
  ELSE
    Outcome(users_touch(users, user.Id), sess1, hist1,
            wallet \cup {[token |-> token, issuedTo |-> user.Id]},
            [req EXCEPT !.status = 200, !.token = token, !.userId = user.Id,
                        !.role = user.Role,
                        !.userFields = DOMAIN ResponseUser(user)])

LoginPOST(body, fault) ==
  /\ FaultAllowed(fault, 5)
  /\ Commit(Login(body, fault))

\* `process.env.JWT_SECRET || "your-secret-key"`
secretOrDefault(secret) == IF secret = "" THEN "your-secret-key" ELSE secret

\* the login handler with the camelCase body (email, password)
LoginV1(body, fault) ==
  LET err   == loginSchema_error(body)
      req   == AuthResp("login", "login:camel", body, err = "", 0)
      found == users_findUnique(body.Email)
      user  == CHOOSE u \in found : TRUE
      users1 == users_touch(users, user.Id)
      token == jwt_sign([sub |-> Undefined, userId |-> user.Id,
                         email |-> user.Email, role |-> user.Role],
                        secretOrDefault(jwtSecret), LoginTokenTTL, now)
      sess1 == usersessions_create(usersessions, SessionRow(user.Id, token, LoginSessionTTL))
      hist1 == userloginhistory_create(userloginhistory, HistoryRow(user.Id, TRUE, ""))
      fail(u, s, h, f) ==
        Outcome(u, s, h, wallet,
                [req EXCEPT !.status = 500, !.error = "Something went wrong",
                            !.fault = f])
      denied ==
        Outcome(users, usersessions, userloginhistory, wallet,
                [req EXCEPT !.status = 401, !.error = "Invalid email or password"])
  IN
  IF err # "" THEN
    Outcome(users, usersessions, userloginhistory, wallet,
            [req EXCEPT !.status = 400, !.error = err])
  ELSE IF fault = 1 THEN fail(users, usersessions, userloginhistory, 1)
  ELSE IF found = {} THEN denied
  ELSE IF ~bcrypt_compare(body.Password, user.PasswordHash) THEN denied
  ELSE IF fault = 2 THEN fail(users, usersessions, userloginhistory, 2)
  ELSE IF fault = 3 \/ Token_taken(usersessions, token) THEN
    fail(users1, usersessions, userloginhistory, IF fault = 3 THEN 3 ELSE 0)
  ELSE IF fault = 4 THEN fail(users1, sess1, userloginhistory, 4)
  ELSE
    Outcome(users1, sess1, hist1,
            wallet \cup {[token |-> token, issuedTo |-> user.Id]},
            [req EXCEPT !.status = 200, !.token = token, !.userId = user.Id,
                        !.role = user.Role,
                        !.userFields = DOMAIN ResponseUserV1(user)])

LoginPOST_V1(body, fault) ==
  /\ FaultAllowed(fault, 4)
  /\ Commit(LoginV1(body, fault))

\* ------------------------------------------------------------- the clock
Tick(d) ==
  /\ Idle
  /\ writes < MaxWrites
  /\ now' = now + d
  /\ writes' = writes + 1
  /\ UNCHANGED <<users, usersessions, userloginhistory, products, conversations,
                 messages, created, wallet, jwtSecret, storeFaults, inflight,
                 lastResp>>

\* ------------------------------------------------ protected endpoints
\* what a client can put after "Bearer ": a token a response handed out, no
\* token, a malformed one, or one signed with a key that is not the server's
ForgedAdmin ==
  jwt_sign([sub |-> 1, userId |-> Undefined, email |-> "", role |-> "admin"],
           AttackerKey, RegisterTokenTTL, now)

\* the first word of the Authorization header; verifyToken takes the second
\* word as the token and never looks at the first
Schemes == {"Bearer", "Basic"}

Presentable ==
  {[token |-> w.token, issuedTo |-> w.issuedTo, scheme |-> sch] :
     w \in wallet \cup {[token |-> NoToken, issuedTo |-> Undefined],
                        [token |-> Malformed, issuedTo |-> Undefined],
                        [token |-> ForgedAdmin, issuedTo |-> Undefined]},
     sch \in Schemes}

\* the headers of the form `Bearer <token>`
Bearers == {entry \in Presentable : entry.scheme = "Bearer"}

\* a permission check that forgets the admin override
Forbidden_ownerOnly(ownerId, decoded) == ownerId # decoded.sub

\* the permission check `owner !== decoded.sub && decoded.role !== 'admin'`
Forbidden(ownerId, decoded) == ownerId # decoded.sub /\ decoded.role # "admin"

\* the checks with the permission check ahead of the existence check
AccessVerdict_ownerFirst(token, owners, id) ==
  IF ~verifyToken_ok(token, jwtSecret, now) THEN "Unauthorized"
  ELSE IF token.role # "admin"
          /\ ~(\E r \in owners : r.Id = id /\ r.owner = token.sub) THEN "Forbidden"
  ELSE IF ~(\E r \in owners : r.Id = id) THEN "NotFound"
  ELSE "Allowed"

\* the checks every ownership-restricted handler runs before it acts:
\* verifyToken, findUnique on the target, the permission check
AccessVerdict(token, owners, id) ==
  IF ~verifyToken_ok(token, jwtSecret, now) THEN "Unauthorized"
  ELSE IF ~(\E r \in owners : r.Id = id) THEN "NotFound"
  ELSE IF Forbidden((CHOOSE r \in owners : r.Id = id).owner, token) THEN "Forbidden"
  ELSE "Allowed"

productOwners == {[Id |-> p.Id, owner |-> p.CreatorId] : p \in products}

conversationOwners == {[Id |-> c.Id, owner |-> c.UserId] : c \in conversations}

\* the request part of the response record of a protected handler
GateResp(op, entry, owners, id) ==
  LET ok == verifyToken_ok(entry.token, jwtSecret, now)
      ex == \E r \in owners : r.Id = id
  IN [BlankResp EXCEPT
        !.op = op, !.presented = entry.token, !.bearer = entry.issuedTo,
        !.scheme = entry.scheme,
        !.sub = IF ok THEN entry.token.sub ELSE Undefined,
        !.decodedRole = IF ok THEN entry.token.role ELSE "",
        !.target = id, !.existed = ex,
        !.owner = IF ex THEN (CHOOSE r \in owners : r.Id = id).owner ELSE NullId,
        !.preUsers = Len(users), !.preSessions = Len(usersessions),
        !.preHistory = Len(userloginhistory)]

\* the response of a request the checks end: 401, 404 or 403 (and the 500 of
\* a findUnique that throws)
Refused(req, verdict, what, fault) ==
  IF verdict = "Unauthorized" THEN
    [req EXCEPT !.verdict = verdict, !.status = 401, !.error = "Unauthorized"]
  ELSE IF fault = 1 THEN
    [req EXCEPT !.verdict = "StoreError", !.status = 500,
                !.error = "Internal server error", !.fault = 1]
  ELSE IF verdict = "NotFound" THEN
    [req EXCEPT !.verdict = verdict, !.status = 404, !.error = what \o " not found"]
  ELSE
    [req EXCEPT !.verdict = verdict, !.status = 403, !.error = "Forbidden"]

\* the handlers whose success response includes the users relation of the row
IncludesUsers ==
  {"products.post", "product.put", "conversations.post", "conversation.get",
   "conversation.put"}

IncludedUserFields(op, ownerId) ==
  LET owners == {users[i] : i \in {j \in 1..Len(users) : users[j].Id = ownerId}}
  IN IF op \in IncludesUsers /\ owners # {}
     THEN DOMAIN IncludedUser(CHOOSE u \in owners : TRUE)
     ELSE {}

Allowed(req, status, error, fault) ==
  [req EXCEPT !.verdict = "Allowed", !.status = status, !.error = error,
              !.fault = fault,
              !.userFields = IF status \in {200, 201}
                             THEN IncludedUserFields(req.op, req.owner) ELSE {}]

IsRefused(verdict, fault) == verdict # "Allowed" \/ fault = 1

\* an outcome of a resource handler: the tables after it, and its response
ResOutcome(p, c, m, resp) ==
  [products |-> p, conversations |-> c, messages |-> m, resp |-> resp]

Same(resp) == ResOutcome(products, conversations, messages, resp)

ResCommitTables(o) ==
  LET wrote == <<o.products, o.conversations, o.messages>>
                 # <<products, conversations, messages>>
  IN
  /\ wrote => writes < MaxWrites
  /\ writes' = IF wrote THEN writes + 1 ELSE writes
  /\ products' = o.products
  /\ conversations' = o.conversations
  /\ messages' = o.messages
  /\ created' = IF Cardinality(o.products) + Cardinality(o.conversations)
                     > Cardinality(products) + Cardinality(conversations)
                THEN created + 1 ELSE created
  /\ lastResp' = o.resp
  /\ UNCHANGED <<users, usersessions, userloginhistory, wallet, now, jwtSecret,
                 storeFaults>>

ResCommit(o) == ResCommitTables(o) /\ UNCHANGED inflight

\* POST /api/products
ProductsCreate(entry, bodyOk, fault) ==
  LET ok  == verifyToken_ok(entry.token, jwtSecret, now)
      req == GateResp("products.post", entry, productOwners, 0)
      id  == created + 1
      row == [Id |-> id, CreatorId |-> entry.token.sub, Title |-> "t0"]
  IN
  IF ~ok THEN
    Same([req EXCEPT !.verdict = "Unauthorized", !.status = 401,
                     !.error = "Unauthorized"])
  ELSE IF ~bodyOk THEN Same(Allowed(req, 400, "Title is required", 0))
  \* CreatorId is a required column: a create without it throws
  ELSE IF fault = 1 \/ row.CreatorId = Undefined THEN
    Same(Allowed(req, 500, "Internal server error", fault))
  ELSE
    ResOutcome(products \cup {row}, conversations, messages,
               Allowed([req EXCEPT !.target = id, !.owner = row.CreatorId],
                       201, "", 0))

ProductsPOST(entry, bodyOk, fault) ==
  /\ FaultAllowed(fault, 1)
  /\ entry \in Presentable
  /\ ResCommit(ProductsCreate(entry, bodyOk, fault))

\* prisma update: the columns named in data are set, the others are kept
row_update(row, data) ==
  [f \in DOMAIN row |-> IF f \in DOMAIN data THEN data[f] ELSE row[f]]

\* an update schema that lets every key of the body through
productUpdateSchema_passthrough(body) == body

\* productUpdateSchema.parse: a z.object keeps the keys it declares (of the
\* modelled columns, Title) and strips the others
productUpdateSchema(body) == [f \in DOMAIN body \cap {"Title"} |-> body[f]]

\* a conversation update schema that lets every key of the body through
conversationUpdateSchema_passthrough(body) == body

\* conversationUpdateSchema.parse: UserName is the declared key modelled
conversationUpdateSchema(body) == [f \in DOMAIN body \cap {"UserName"} |-> body[f]]

\* the owner a request body names, if it names one
BodyOwner(body, column) == IF column \in DOMAIN body THEN body[column] ELSE Undefined

\* prisma.products.update({where: {Id: id}, data}): it throws when no row
\* has the id, and the handler's catch answers 500
products_update(req, id, data) ==
  IF ~(\E p \in products : p.Id = id) THEN
    Same(Allowed(req, 500, "Internal server error", 0))
  ELSE
    ResOutcome({IF p.Id = id THEN row_update(p, data) ELSE p : p \in products},
               conversations, messages, Allowed(req, 200, "", 0))

\* prisma.products.delete({where: {Id: id}})
products_delete(req, id) ==
  IF ~(\E p \in products : p.Id = id) THEN
    Same(Allowed(req, 500, "Internal server error", 0))
  ELSE
    ResOutcome({p \in products : p.Id # id}, conversations, messages,
               Allowed(req, 200, "", 0))

\* PUT /api/products/{id}
ProductUpdate(entry, id, bodyOk, body, fault) ==
  LET verdict == AccessVerdict(entry.token, productOwners, id)
      req     == [GateResp("product.put", entry, productOwners, id) EXCEPT
                    !.bodyOwner = BodyOwner(body, "CreatorId")]
      validatedData == productUpdateSchema(body)
  IN
  IF IsRefused(verdict, fault) THEN Same(Refused(req, verdict, "Product", fault))
  ELSE IF ~bodyOk THEN Same(Allowed(req, 400, "Title is required", 0))
  ELSE IF fault = 2 THEN Same(Allowed(req, 500, "Internal server error", 2))
  ELSE products_update(req, id, validatedData)

ProductPUT(entry, id, bodyOk, body, fault) ==
  /\ FaultAllowed(fault, 2)
  /\ entry \in Presentable
  /\ ResCommit(ProductUpdate(entry, id, bodyOk, body, fault))

\* DELETE /api/products/{id}
ProductDelete(entry, id, fault) ==
  LET verdict == AccessVerdict(entry.token, productOwners, id)
      req     == GateResp("product.delete", entry, productOwners, id)
  IN
  IF IsRefused(verdict, fault) THEN Same(Refused(req, verdict, "Product", fault))
  ELSE IF fault = 2 THEN Same(Allowed(req, 500, "Internal server error", 2))
  ELSE products_delete(req, id)

ProductDELETE(entry, id, fault) ==
  /\ FaultAllowed(fault, 2)
  /\ entry \in Presentable
  /\ ResCommit(ProductDelete(entry, id, fault))

\* POST /api/conversations
ConversationsCreate(entry, bodyOk, fault) ==
  LET ok  == verifyToken_ok(entry.token, jwtSecret, now)
      req == GateResp("conversations.post", entry, conversationOwners, 0)
      id  == created + 1
      \* UserId is nullable: an undefined UserId is stored as NULL
      row == [Id |-> id,
              UserId |-> IF entry.token.sub = Undefined THEN NullId
                         ELSE entry.token.sub,
              UserName |-> "n0"]
  IN
  IF ~ok THEN
    Same([req EXCEPT !.verdict = "Unauthorized", !.status = 401,
                     !.error = "Unauthorized"])
  ELSE IF ~bodyOk THEN Same(Allowed(req, 400, "Name is required", 0))
  ELSE IF fault = 1 THEN Same(Allowed(req, 500, "Internal server error", 1))
  ELSE
    ResOutcome(products, conversations \cup {row}, messages,
               Allowed([req EXCEPT !.target = id, !.owner = row.UserId],
                       201, "", 0))

ConversationsPOST(entry, bodyOk, fault) ==
  /\ FaultAllowed(fault, 1)
  /\ entry \in Presentable
  /\ ResCommit(ConversationsCreate(entry, bodyOk, fault))

\* the rows `where = role === 'admin' ? {} : {UserId: decoded.sub}` selects; a
\* filter whose value is undefined is no filter to the query builder
conversations_where(decoded) ==
  IF decoded.role = "admin" \/ decoded.sub = Undefined THEN conversations
  ELSE {c \in conversations : c.UserId = decoded.sub}

\* GET /api/conversations
ConversationsList(entry, queryOk, fault) ==
  LET ok   == verifyToken_ok(entry.token, jwtSecret, now)
      req  == GateResp("conversations.get", entry, conversationOwners, 0)
      rows == conversations_where(entry.token)
  IN
  IF ~ok THEN
    Same([req EXCEPT !.verdict = "Unauthorized", !.status = 401,
                     !.error = "Unauthorized"])
  \* page or limit that is not a number reaches findMany as NaN
  ELSE IF ~queryOk \/ fault # 0 THEN
    Same(Allowed(req, 500, "Internal server error", fault))
  ELSE
    Same([Allowed(req, 200, "", 0) EXCEPT
            !.listed = {c.Id : c \in rows}, !.total = Cardinality(rows)])

ConversationsGET(entry, queryOk, fault) ==
  /\ FaultAllowed(fault, 2)
  /\ entry \in Presentable
  /\ ResCommit(ConversationsList(entry, queryOk, fault))

\* GET /api/conversations/{id}
ConversationRead(entry, id, fault) ==
  LET verdict == AccessVerdict(entry.token, conversationOwners, id)
      req     == GateResp("conversation.get", entry, conversationOwners, id)
  IN
  IF IsRefused(verdict, fault) THEN Same(Refused(req, verdict, "Conversation", fault))
  ELSE Same(Allowed(req, 200, "", 0))

ConversationGET(entry, id, fault) ==
  /\ FaultAllowed(fault, 1)
  /\ entry \in Presentable
  /\ ResCommit(ConversationRead(entry, id, fault))

\* prisma.conversations.update({where: {Id: id}, data})
conversations_update(req, id, data) ==
  IF ~(\E c \in conversations : c.Id = id) THEN
    Same(Allowed(req, 500, "Internal server error", 0))
  ELSE
    ResOutcome(products,
               {IF c.Id = id THEN row_update(c, data) ELSE c : c \in conversations},
               messages, Allowed(req, 200, "", 0))

\* PUT /api/conversations/{id}
ConversationUpdate(entry, id, bodyOk, body, fault) ==
  LET verdict == AccessVerdict(entry.token, conversationOwners, id)
      req     == [GateResp("conversation.put", entry, conversationOwners, id) EXCEPT
                    !.bodyOwner = BodyOwner(body, "UserId")]
      validatedData == conversationUpdateSchema(body)
  IN
  IF IsRefused(verdict, fault) THEN Same(Refused(req, verdict, "Conversation", fault))
  ELSE IF ~bodyOk THEN Same(Allowed(req, 400, "Name is required", 0))
  ELSE IF fault = 2 THEN Same(Allowed(req, 500, "Internal server error", 2))
  ELSE conversations_update(req, id, validatedData)

ConversationPUT(entry, id, bodyOk, body, fault) ==
  /\ FaultAllowed(fault, 2)
  /\ entry \in Presentable
  /\ ResCommit(ConversationUpdate(entry, id, bodyOk, body, fault))

\* the foreign key messages.ConversationId (onDelete: NoAction) rejects the
\* delete of a conversation that still has messages
messages_reference(id) == \E i \in 1..Len(messages) : messages[i].ConversationId = id

\* prisma.conversations.delete({where: {Id: id}})
conversations_delete(req, id) ==
  IF ~(\E c \in conversations : c.Id = id) \/ messages_reference(id) THEN
    Same(Allowed(req, 500, "Internal server error", 0))
  ELSE
    ResOutcome(products, {c \in conversations : c.Id # id}, messages,
               Allowed(req, 200, "", 0))

\* DELETE /api/conversations/{id}
ConversationDelete(entry, id, fault) ==
  LET verdict == AccessVerdict(entry.token, conversationOwners, id)
      req     == GateResp("conversation.delete", entry, conversationOwners, id)
  IN
  IF IsRefused(verdict, fault) THEN Same(Refused(req, verdict, "Conversation", fault))
  ELSE IF fault = 2 THEN Same(Allowed(req, 500, "Internal server error", 2))
  ELSE conversations_delete(req, id)

ConversationDELETE(entry, id, fault) ==
  /\ FaultAllowed(fault, 2)
  /\ entry \in Presentable
  /\ ResCommit(ConversationDelete(entry, id, fault))

\* prisma.messages.count and findMany({where: {ConversationId: id}})
messages_findMany(req, id) ==
  LET rows == {i \in 1..Len(messages) : messages[i].ConversationId = id}
  IN Same([Allowed(req, 200, "", 0) EXCEPT
             !.listed = rows, !.total = Cardinality(rows)])

\* GET /api/conversations/{id}/messages
MessagesList(entry, id, queryOk, fault) ==
  LET verdict == AccessVerdict(entry.token, conversationOwners, id)
      req     == GateResp("messages.get", entry, conversationOwners, id)
  IN
  IF IsRefused(verdict, fault) THEN Same(Refused(req, verdict, "Conversation", fault))
  \* a query that fails querySchema throws a ZodError, which the catch of
  \* this handler does not single out
  ELSE IF ~queryOk \/ fault # 0 THEN
    Same(Allowed(req, 500, "Internal server error", fault))
  ELSE messages_findMany(req, id)

MessagesGET(entry, id, queryOk, fault) ==
  /\ FaultAllowed(fault, 3)
  /\ entry \in Presentable
  /\ ResCommit(MessagesList(entry, id, queryOk, fault))

\* prisma.messages.create with ConversationId: id, then
\* prisma.conversations.update of UpdatedAt; the foreign key of
\* messages.ConversationId rejects a message for a conversation that is gone
messages_create(req, id, row) ==
  IF ~(\E c \in conversations : c.Id = id) THEN
    Same(Allowed(req, 500, "Internal server error", 0))
  ELSE
    ResOutcome(products, conversations, Append(messages, row),
               Allowed(req, 201, "", 0))

\* POST /api/conversations/{id}/messages
MessagesCreate(entry, id, bodyOk, fault) ==
  LET verdict == AccessVerdict(entry.token, conversationOwners, id)
      req     == GateResp("messages.post", entry, conversationOwners, id)
      row     == [ConversationId |-> id, Content |-> "m"]
  IN
  IF IsRefused(verdict, fault) THEN Same(Refused(req, verdict, "Conversation", fault))
  ELSE IF ~bodyOk THEN Same(Allowed(req, 400, "Message content is required", 0))
  ELSE IF fault = 2 THEN Same(Allowed(req, 500, "Internal server error", 2))
  \* the message row stays when the conversations.update after it throws
  ELSE IF fault = 3 THEN
    ResOutcome(products, conversations, Append(messages, row),
               Allowed(req, 500, "Internal server error", 3))
  ELSE messages_create(req, id, row)

MessagesPOST(entry, id, bodyOk, fault) ==
  /\ FaultAllowed(fault, 3)
  /\ entry \in Presentable
  /\ ResCommit(MessagesCreate(entry, id, bodyOk, fault))

\* the ownership-restricted handlers that call the store again after their
\* checks: between the findUnique of the checks and that call, other
\* requests run
SteppedOps ==
  {"product.put", "product.delete", "conversation.put", "conversation.delete",
   "messages.post", "messages.get"}

OwnersOf(op) ==
  IF op \in {"product.put", "product.delete"} THEN productOwners
  ELSE conversationOwners

ResourceName(op) ==
  IF op \in {"product.put", "product.delete"} THEN "Product" ELSE "Conversation"

\* the store calls a handler makes after its checks, on the tables as they
\* are when it makes them
AfterCheck(op, req, id, body) ==
  CASE op = "product.put" -> products_update(req, id, productUpdateSchema(body))
    [] op = "product.delete" -> products_delete(req, id)
    [] op = "conversation.put" ->
         conversations_update(req, id, conversationUpdateSchema(body))
    [] op = "conversation.delete" -> conversations_delete(req, id)
    [] op = "messages.post" ->
         messages_create(req, id, [ConversationId |-> id, Content |-> "m"])
    [] OTHER -> messages_findMany(req, id)

\* a handler up to its permission check: verifyToken, findUnique on the
\* target, the check; a request the checks end is answered, an allowed one
\* goes on to its store calls in a later step
ResourceCheck(op, entry, id, body) ==
  LET verdict == AccessVerdict(entry.token, OwnersOf(op), id)
      req     == [GateResp(op, entry, OwnersOf(op), id) EXCEPT
                    !.bodyOwner = BodyOwner(body, IF op = "product.put"
                                                  THEN "CreatorId" ELSE "UserId")]
  IN
  /\ Idle
  /\ entry \in Presentable
  /\ IF verdict # "Allowed" THEN
       /\ lastResp' = Refused(req, verdict, ResourceName(op), 0)
       /\ inflight' = inflight
     ELSE
       /\ Cardinality(inflight) < MaxInflight
       /\ inflight' = inflight \cup
            {[route |-> op, body |-> [req |-> req, data |-> body]]}
       /\ lastResp' = lastResp
  /\ UNCHANGED <<users, usersessions, userloginhistory, products, conversations,
                 messages, created, wallet, now, writes, jwtSecret, storeFaults>>

\* the rest of an allowed handler: its update, delete, create or findMany,
\* and its response
ResourceWrite(p) ==
  /\ Idle
  /\ p \in inflight
  /\ ResCommitTables(AfterCheck(p.route, p.body.req, p.body.req.target, p.body.data))
  /\ inflight' = inflight \ {p}

\* the response leaves the server
Respond ==
  /\ ~Idle
  /\ lastResp' = BlankResp
  /\ UNCHANGED <<users, usersessions, userloginhistory, products, conversations,
                 messages, created, wallet, now, writes, jwtSecret, storeFaults,
                 inflight>>

\* -------------------------------------------------------- specifications
Bodies == [Email : Emails, Password : Passwords, FullName : FullNames, Role : RoleInputs]

LoginBodies == [Email : Emails, Password : Passwords]

\* the well-formed bodies the protected endpoints are reached with
GateBodies ==
  [Email : WellFormedEmails, Password : {"Secret123"}, FullName : {"Al"},
   Role : {"", "admin"}]

\* the credential endpoints and the clock
Next ==
  \/ \E body \in Bodies, fault \in 0..4 : RegisterPOST(body, fault)
  \/ \E body \in Bodies, fault \in 0..2 : RegisterPOST_V1(body, fault)
  \/ \E body \in GateBodies : handler(body)
  \/ \E body \in LoginBodies, fault \in 0..5 : LoginPOST(body, fault)
  \/ \E body \in LoginBodies, fault \in 0..4 : LoginPOST_V1(body, fault)
  \/ \E d \in TickSteps : Tick(d)
  \/ Respond

\* the store answers every call
Spec == Init /\ [][Next]_vars

\* any one store call of a request may throw; the requests are well formed
FaultBodies ==
  [Email : {"al@x.io"}, Password : {"Secret123"}, FullName : {"Al"}, Role : {""}]

FaultLogins == [Email : {"al@x.io"}, Password : {"Secret123", "abcdef1"}]

NextFault ==
  \/ \E body \in FaultBodies, fault \in 0..4 : RegisterPOST(body, fault)
  \/ \E body \in FaultBodies, fault \in 0..2 : RegisterPOST_V1(body, fault)
  \/ \E body \in FaultBodies : handler(body)
  \/ \E body \in FaultLogins, fault \in 0..5 : LoginPOST(body, fault)
  \/ \E body \in FaultLogins, fault \in 0..4 : LoginPOST_V1(body, fault)
  \/ \E d \in TickSteps : Tick(d)
  \/ Respond

SpecFault == InitFault /\ [][NextFault]_vars

\* the protected endpoints, reached with the tokens that well-formed
\* registrations and logins hand out
GateLogins == [Email : WellFormedEmails, Password : {"Secret123"}]

\* the ids a request can name: those handed out so far, or the first one
ResourceIds == 1..(IF created = 0 THEN 1 ELSE created)

\* the bodies of the update requests: the new title or name, alone or with
\* an owner column naming another user
AttemptedOwner == 2

ProductUpdateBodies ==
  {[Title |-> "t1"], [Title |-> "t1", CreatorId |-> AttemptedOwner]}

ConversationUpdateBodies ==
  {[UserName |-> "n1"], [UserName |-> "n1", UserId |-> AttemptedOwner]}

\* the requests to the protected endpoints
ResourceRequests(entries) ==
  \/ \E entry \in entries, bodyOk \in BOOLEAN : ProductsPOST(entry, bodyOk, 0)
  \/ \E entry \in entries, id \in ResourceIds, bodyOk \in BOOLEAN,
          body \in ProductUpdateBodies :
       ProductPUT(entry, id, bodyOk, body, 0)
  \/ \E entry \in entries, id \in ResourceIds : ProductDELETE(entry, id, 0)
  \/ \E entry \in entries, bodyOk \in BOOLEAN : ConversationsPOST(entry, bodyOk, 0)
  \/ \E entry \in entries, queryOk \in BOOLEAN : ConversationsGET(entry, queryOk, 0)
  \/ \E entry \in entries, id \in ResourceIds : ConversationGET(entry, id, 0)
  \/ \E entry \in entries, id \in ResourceIds, bodyOk \in BOOLEAN,
          body \in ConversationUpdateBodies :
       ConversationPUT(entry, id, bodyOk, body, 0)
  \/ \E entry \in entries, id \in ResourceIds : ConversationDELETE(entry, id, 0)
  \/ \E entry \in entries, id \in ResourceIds, queryOk \in BOOLEAN :
       MessagesGET(entry, id, queryOk, 0)
  \/ \E entry \in entries, id \in ResourceIds, bodyOk \in BOOLEAN :
       MessagesPOST(entry, id, bodyOk, 0)

NextGate ==
  \/ \E body \in GateBodies : RegisterPOST(body, 0)
  \/ \E body \in GateLogins : LoginPOST(body, 0)
  \/ ResourceRequests(Bearers)
  \/ \E d \in TickSteps : Tick(d)
  \/ Respond

SpecGate == Init /\ [][NextGate]_vars

\* The store as two registrations at second 0 leave it, except that the
\* session table records all, one or none of the two sessions.
RegisteredUsers ==
  <<UserRow(1, "al@x.io", "Al", "client", "Secret123"),
    UserRow(2, "bo@x.io", "Al", "admin", "Secret123")>>

RegisterToken(user) ==
  jwt_sign([sub |-> user.Id, userId |-> Undefined, email |-> "", role |-> user.Role],
           ConfiguredSecret, RegisterTokenTTL, 0)

RegisteredSessions ==
  [i \in 1..Len(RegisteredUsers) |->
     [UserId |-> RegisteredUsers[i].Id, Token |-> RegisterToken(RegisteredUsers[i]),
      ExpiresAt |-> RegisterSessionTTL, CreatedAt |-> 0]]

InitRegistry ==
  /\ users = RegisteredUsers
  /\ usersessions \in {SubSeq(RegisteredSessions, 1, n) : n \in 0..Len(RegisteredSessions)}
  /\ userloginhistory =
       [i \in 1..Len(RegisteredUsers) |-> HistoryRow(RegisteredUsers[i].Id, TRUE, "")]
  /\ products = {}
  /\ conversations = {}
  /\ messages = <<>>
  /\ created = 0
  /\ wallet = {[token |-> RegisterToken(RegisteredUsers[i]),
                issuedTo |-> RegisteredUsers[i].Id] : i \in 1..Len(RegisteredUsers)}
  /\ now = 0
  /\ writes = Len(RegisteredUsers)
  /\ jwtSecret = ConfiguredSecret
  /\ storeFaults = FALSE
  /\ inflight = {}
  /\ lastResp = BlankResp

NextRegistry ==
  \/ ResourceRequests(Presentable)
  \/ \E d \in TickSteps : Tick(d)
  \/ Respond

SpecRegistry == InitRegistry /\ [][NextRegistry]_vars

\* the handlers of the ownership-restricted endpoints in two steps each,
\* interleaved, on the store of two registered users, a product of the
\* admin and a conversation of the client
InitSteps ==
  /\ users = RegisteredUsers
  /\ usersessions = RegisteredSessions
  /\ userloginhistory =
       [i \in 1..Len(RegisteredUsers) |-> HistoryRow(RegisteredUsers[i].Id, TRUE, "")]
  /\ products = {[Id |-> 1, CreatorId |-> RegisteredUsers[2].Id, Title |-> "t0"]}
  /\ conversations = {[Id |-> 2, UserId |-> RegisteredUsers[1].Id, UserName |-> "n0"]}
  /\ messages = <<>>
  /\ created = 2
  /\ wallet = {[token |-> RegisterToken(RegisteredUsers[i]),
                issuedTo |-> RegisteredUsers[i].Id] : i \in 1..Len(RegisteredUsers)}
  /\ now = 0
  /\ writes = Len(RegisteredUsers)
  /\ jwtSecret = ConfiguredSecret
  /\ storeFaults = FALSE
  /\ inflight = {}
  /\ lastResp = BlankResp

BodiesOf(op) ==
  IF op = "product.put" THEN ProductUpdateBodies
  ELSE IF op = "conversation.put" THEN ConversationUpdateBodies
  ELSE {[Content |-> "m"]}

\* the headers that carry a token a response handed out
Holders == {entry \in Bearers : entry.issuedTo # Undefined}

NextSteps ==
  \/ \E op \in SteppedOps, entry \in Holders, id \in ResourceIds :
       \E body \in BodiesOf(op) : ResourceCheck(op, entry, id, body)
  \/ \E p \in inflight : ResourceWrite(p)
  \/ Respond

SpecSteps == InitSteps /\ [][NextSteps]_vars

\* register requests that overlap
RegisterRoutes == {"register:token", "register:plain"}

NextRace ==
  \/ \E body \in GateBodies, route \in RegisterRoutes : RegisterLookup(body, route)
  \/ \E p \in inflight : RegisterCreate(p)
  \/ Respond

SpecRace == Init /\ [][NextRace]_vars

\* the issuing and the verifying endpoints of a server without JWT_SECRET
NextKey ==
  \/ \E body \in GateBodies : RegisterPOST(body, 0)
  \/ \E body \in GateLogins : LoginPOST(body, 0)
  \/ \E body \in GateLogins : LoginPOST_V1(body, 0)
  \/ \E entry \in Bearers, bodyOk \in BOOLEAN : ProductsPOST(entry, bodyOk, 0)
  \/ \E entry \in Bearers, bodyOk \in BOOLEAN : ConversationsPOST(entry, bodyOk, 0)
  \/ \E entry \in Bearers, id \in ResourceIds : ConversationGET(entry, id, 0)
  \/ \E d \in TickSteps : Tick(d)
  \/ Respond

SpecKey == InitKey /\ [][NextKey]_vars

\* ----------------------------------------------------------------- claims
GatedOps ==
  {"product.put", "product.delete", "conversation.get", "conversation.put",
   "conversation.delete", "messages.get", "messages.post"}

ProtectedOps ==
  GatedOps \cup {"products.post", "conversations.post", "conversations.get"}

\* the last request was a login / a registration that was answered
IsLogin == lastResp.op = "login"

IsRegister == lastResp.op = "register"

\* the stored users whose credentials the last request carries
Matching ==
  {i \in 1..Len(users) :
     /\ users[i].Email = lastResp.email
     /\ bcrypt_compare(lastResp.password, users[i].PasswordHash)}

Known == {i \in 1..Len(users) : users[i].Email = lastResp.email}

\* C1: on every ownership-restricted endpoint, a request that reaches the
\* permission check is allowed exactly when the verified principal is an
\* admin or its id is the owner id of the resource; a denial is a 403.
C1_AuthorizationRule ==
  (lastResp.op \in GatedOps /\ lastResp.verdict \in {"Allowed", "Forbidden"}) =>
    /\ lastResp.verdict = "Allowed" <=>
         (lastResp.decodedRole = "admin" \/ lastResp.sub = lastResp.owner)
    /\ lastResp.verdict = "Forbidden" <=> lastResp.status = 403

\* C1 witness: a non-admin whose id is not the owner's is denied with 403
C1_Witness ==
  /\ lastResp.op \in GatedOps
  /\ lastResp.status = 403
  /\ lastResp.decodedRole # "admin"
  /\ lastResp.sub # Undefined
  /\ lastResp.owner # NullId
  /\ lastResp.sub # lastResp.owner

\* the token of the last request is signed by the server and not expired
PresentedValid ==
  /\ lastResp.presented.key = jwtSecret
  /\ now < lastResp.presented.exp

\* C2: on every ownership-restricted endpoint the token is checked first
\* (401 whatever the resource), then existence (404 for a valid token on an
\* absent resource, admin or not), then ownership (403 only for a resource
\* that exists); a request ends in exactly one of 401, 404, 403 or Allowed.
C2_CheckOrder ==
  lastResp.op \in GatedOps =>
    /\ lastResp.verdict \in {"Unauthorized", "NotFound", "Forbidden", "Allowed"}
    /\ lastResp.verdict = "Unauthorized" <=> ~PresentedValid
    /\ lastResp.verdict = "Unauthorized" <=> lastResp.status = 401
    /\ lastResp.verdict = "NotFound" <=> (PresentedValid /\ ~lastResp.existed)
    /\ lastResp.verdict = "NotFound" <=> lastResp.status = 404
    /\ lastResp.verdict = "Forbidden" <=> lastResp.status = 403
    /\ lastResp.status = 403 => lastResp.existed

\* C2 witness: a non-admin with a valid token asks for an absent resource
C2_Witness ==
  /\ lastResp.op \in GatedOps
  /\ PresentedValid
  /\ lastResp.decodedRole # "admin"
  /\ ~lastResp.existed
  /\ lastResp.status = 404

\* C3: a token that register or login issued for user P is accepted before
\* its expiry with a principal whose subject is P's id and whose role is P's
\* role, and is rejected with 401 from its expiry on.
C3_TokenRoundTrip ==
  (lastResp.op \in ProtectedOps /\ lastResp.bearer # Undefined) =>
    IF now < lastResp.presented.exp
    THEN /\ lastResp.status # 401
         /\ lastResp.sub = lastResp.bearer
         /\ lastResp.decodedRole = users[lastResp.bearer].Role
    ELSE lastResp.status = 401

\* C4: a well-formed login with an unknown email and one with a known email
\* and a wrong password get the same response: 401, "Invalid credentials".
C4_SameFailure ==
  (IsLogin /\ lastResp.wellFormed /\ Matching = {}) =>
    /\ lastResp.status = 401
    /\ lastResp.error = "Invalid credentials"

\* C5: once a registration has stored a user, every login with that email
\* and password returns 200 with a token.
C5_LoginAfterRegister ==
  (IsLogin /\ Matching # {}) =>
    /\ lastResp.status = 200
    /\ lastResp.token # NoToken

\* the rows of the three credential tables that the last request added
NoRowAdded ==
  /\ Len(users) = lastResp.preUsers
  /\ Len(usersessions) = lastResp.preSessions
  /\ Len(userloginhistory) = lastResp.preHistory

\* C6: a registration whose email a stored user already has is answered 400
\* whatever its other fields are (as a duplicate when they are valid and the
\* handler gets to its lookup), and adds no user, session or login-history row.
C6_DuplicateRejected ==
  (IsRegister /\ \E i \in 1..lastResp.preUsers : users[i].Email = lastResp.email) =>
    /\ lastResp.status = 400
    /\ NoRowAdded
    /\ (lastResp.wellFormed /\ lastResp.handler # "register:pages") =>
         lastResp.error \in {"Email already registered",
                             "User with this email already exists"}

\* C6 witness: a well-formed registration with a stored email was refused
C6_Witness ==
  /\ IsRegister
  /\ lastResp.handler # "register:pages"
  /\ lastResp.wellFormed
  /\ \E i \in 1..lastResp.preUsers : users[i].Email = lastResp.email
  /\ lastResp.status = 400

\* C7: a login with a known email and a wrong password appends exactly one
\* login-history row (Successful = false, a failure reason, that user's id)
\* and no session row.
C7_FailedLoginAudited ==
  (IsLogin /\ lastResp.wellFormed /\ Known # {} /\ Matching = {}) =>
    /\ lastResp.status = 401
    /\ Len(usersessions) = lastResp.preSessions
    /\ Len(userloginhistory) = lastResp.preHistory + 1
    /\ LET row == userloginhistory[Len(userloginhistory)]
       IN /\ row.UserId \in {users[i].Id : i \in Known}
          /\ ~row.Successful
          /\ row.FailureReason # ""

Succeeded ==
  \/ IsRegister /\ lastResp.status = 201
  \/ IsLogin /\ lastResp.status = 200

\* C8: a registration answered 201 and a login answered 200 have appended
\* exactly one login-history row with Successful = true for that user.
C8_SuccessAudited ==
  Succeeded =>
    /\ Len(userloginhistory) = lastResp.preHistory + 1
    /\ LET row == userloginhistory[Len(userloginhistory)]
       IN row.UserId = lastResp.userId /\ row.Successful

\* C9: a registration answered 201 and a login answered 200 have created
\* exactly one session row, of that user and for the token in the response.
C9_SuccessHasSession ==
  Succeeded =>
    /\ lastResp.token # NoToken
    /\ Len(usersessions) = lastResp.preSessions + 1
    /\ LET row == usersessions[Len(usersessions)]
       IN row.UserId = lastResp.userId /\ row.Token = lastResp.token

\* C10: when the login-history write of a login or registration with
\* accepted credentials throws, the request still returns 200 / 201 with
\* the token.
C10_AuditFailureSwallowed ==
  ((IsLogin \/ IsRegister) /\ lastResp.handler # "register:plain"
     /\ lastResp.fault = 4) =>
    /\ lastResp.status \in {200, 201}
    /\ lastResp.token # NoToken

\* C11: the offset between CreatedAt and ExpiresAt is one and the same
\* constant for every session row, whether login or registration created it.
C11_OneSessionTTL ==
  \A i, j \in 1..Len(usersessions) :
    usersessions[i].ExpiresAt - usersessions[i].CreatedAt
      = usersessions[j].ExpiresAt - usersessions[j].CreatedAt

\* the generic bodies of a 500
GenericErrors == {"Internal server error", "Something went wrong"}

\* C13: a request one of whose store calls threw ends in a 500 with a
\* generic message; it is never answered 400 or 401.
C13_StoreFailureIs500 ==
  lastResp.fault # 0 =>
    /\ lastResp.status = 500
    /\ lastResp.error \in GenericErrors

\* C17: every login whose credentials are accepted inserts its own session
\* row and returns success, also when the same user has logged in already
\* within the same clock second.
C17_SessionWritesNeverConflict ==
  (IsLogin /\ Matching # {}) =>
    /\ Len(usersessions) = lastResp.preSessions + 1
    /\ lastResp.status = 200

\* C19: no stored user has a password shorter than 8 characters.
C19_NoShortPasswordStored ==
  \A i \in 1..Len(users) : Len(users[i].PasswordHash.digest) >= 8

\* C20: when the update of the last-login timestamp throws after the
\* password has been verified, the login still returns 200 with a token.
C20_TouchIsBestEffort ==
  (IsLogin /\ \/ lastResp.handler = "login:pascal" /\ lastResp.fault = 5
              \/ lastResp.handler = "login:camel" /\ lastResp.fault = 2) =>
    /\ lastResp.status = 200
    /\ lastResp.token # NoToken

\* the columns of a user row that hold the password hash and its salt
SecretColumns == {"PasswordHash", "PasswordSalt"}

\* C12: no response carries a user's password hash or salt, and the user
\* object of a register or login response has only the id, the email, the
\* full name and the role.
C12_NoPasswordHashInResponse ==
  /\ lastResp.userFields \cap SecretColumns = {}
  /\ (IsLogin \/ IsRegister) =>
       lastResp.userFields \in
         {{}, {"id", "email", "fullName", "role"},
          {"Id", "Email", "FullName", "Role"}}

\* C12 witness: a login answered 200 for a user whose row holds a hash
C12_Witness ==
  /\ IsLogin
  /\ lastResp.status = 200
  /\ lastResp.userFields # {}
  /\ \E i \in 1..Len(users) :
       /\ users[i].Id = lastResp.userId
       /\ "PasswordHash" \in DOMAIN users[i]

\* C14: with the signing key absent from the configuration, a register or
\* login whose credentials are accepted, and every protected request that
\* presents a token the server issued, is answered 500.
C14_KeyMisconfigurationIs500 ==
  jwtSecret = "" =>
    /\ (IsLogin /\ Matching # {}) => lastResp.status = 500
    /\ (IsRegister /\ lastResp.wellFormed /\ lastResp.fault = 0
          /\ lastResp.handler = "register:token"
          /\ ~\E i \in 1..lastResp.preUsers : users[i].Email = lastResp.email) =>
         lastResp.status = 500
    /\ (lastResp.op \in ProtectedOps /\ lastResp.bearer # Undefined) =>
         lastResp.status = 500

\* C15: session rows and login-history rows are append-only: every step
\* leaves each row that was there in place, with its fields unchanged.
C15_AppendOnly ==
  [][/\ Len(usersessions') >= Len(usersessions)
     /\ SubSeq(usersessions', 1, Len(usersessions)) = usersessions
     /\ Len(userloginhistory') >= Len(userloginhistory)
     /\ SubSeq(userloginhistory', 1, Len(userloginhistory)) = userloginhistory]_vars

\* C15 witness: a login has added a session and a history row for a user
\* who had one of each already
C15_Witness ==
  /\ IsLogin
  /\ lastResp.status = 200
  /\ Len(usersessions) = lastResp.preSessions + 1
  /\ Len(userloginhistory) = lastResp.preHistory + 1
  /\ \E i \in 1..lastResp.preSessions : usersessions[i].UserId = lastResp.userId
  /\ \E i \in 1..lastResp.preHistory : userloginhistory[i].UserId = lastResp.userId

\* C16: the outcome of token verification does not depend on the session
\* table: whatever session rows the store holds, a protected request is
\* answered 401 exactly when its token is not validly signed or is expired,
\* so a valid token is accepted also when no session row records it.
C16_VerificationIgnoresRegistry ==
  lastResp.op \in ProtectedOps =>
    /\ lastResp.status = 401 <=> ~PresentedValid
    /\ PresentedValid => lastResp.sub = lastResp.presented.sub

\* C16 witness: a valid token that no session row records was accepted
C16_Witness ==
  /\ lastResp.op \in ProtectedOps
  /\ PresentedValid
  /\ ~Token_taken(usersessions, lastResp.presented)
  /\ lastResp.status \in {200, 201}

\* C18: whatever the interleaving of register requests, no two user rows
\* have the same email.
C18_EmailUnique ==
  \A i, j \in 1..Len(users) : users[i].Email = users[j].Email => i = j

\* C18 witness: a register request whose lookup found no row was refused at
\* its create, the email having been stored by another request in between
C18_Witness ==
  /\ IsRegister
  /\ lastResp.wellFormed
  /\ lastResp.status \in {400, 500}
  /\ lastResp.error \in {"Internal server error", "store error text"}
  /\ \E i \in 1..lastResp.preUsers : users[i].Email = lastResp.email
  /\ Len(users) = lastResp.preUsers

\* C21: a protected endpoint answers 401 at its token check, before any
\* store call, when the Authorization header carries no token, is not of the
\* form `Bearer <token>`, or carries a token that is malformed, wrongly
\* signed or expired.
C21_UnauthenticatedIs401 ==
  (lastResp.op \in ProtectedOps
     /\ (lastResp.scheme # "Bearer" \/ ~PresentedValid)) =>
    /\ lastResp.status = 401
    /\ lastResp.verdict = "Unauthorized"

\* C22: a product created by an authenticated user is stored with that
\* user's id as CreatorId; the same user, with a token from registration or
\* from login, can afterwards update and delete it (200), and a different
\* user who is not an admin gets 403.
C22_CreatorOwnsProduct ==
  /\ (lastResp.op = "products.post" /\ PresentedValid /\ lastResp.status # 400) =>
       /\ lastResp.status = 201
       /\ lastResp.owner = lastResp.bearer
       /\ \E p \in products : p.Id = lastResp.target /\ p.CreatorId = lastResp.bearer
  /\ (lastResp.op \in {"product.put", "product.delete"}
        /\ PresentedValid /\ lastResp.existed /\ lastResp.status # 400) =>
       /\ lastResp.bearer = lastResp.owner => lastResp.status = 200
       /\ (lastResp.bearer # lastResp.owner /\ lastResp.decodedRole # "admin") =>
            lastResp.status = 403

\* C23: DELETE of a conversation by its owner or by an admin returns 200 and
\* removes the conversation together with all of its messages, however many
\* messages it holds.
C23_DeleteRemovesMessages ==
  (lastResp.op = "conversation.delete" /\ lastResp.verdict = "Allowed") =>
    /\ lastResp.status = 200
    /\ ~(\E c \in conversations : c.Id = lastResp.target)
    /\ ~messages_reference(lastResp.target)

\* C24: of two registrations for the same fresh email that both pass the
\* existence lookup before either creates the user, one is answered 201 and
\* the other 400 for the duplicate email, never 500, and the loser adds no
\* user, session or login-history row.
C24_ConcurrentDuplicateIs400 ==
  (IsRegister /\ lastResp.wellFormed
     /\ \E i \in 1..lastResp.preUsers : users[i].Email = lastResp.email) =>
    /\ lastResp.status = 400
    /\ lastResp.error = "Email already registered"
    /\ Len(users) = lastResp.preUsers
    /\ Len(usersessions) = lastResp.preSessions
    /\ Len(userloginhistory) = lastResp.preHistory

\* C29: register and login are all-or-nothing: a register request that is
\* not answered 201 leaves the users, session and login-history tables as
\* they were, and a login request that is not answered 200 leaves the session
\* table and the users table (the last-login timestamp) as they were, also
\* when a store call fails part-way through the handler.
C29_AllOrNothing ==
  [][/\ (lastResp'.op = "register" /\ lastResp.op = "none"
           /\ lastResp'.status # 201) =>
          /\ users' = users
          /\ usersessions' = usersessions
          /\ userloginhistory' = userloginhistory
     /\ (lastResp'.op = "login" /\ lastResp.op = "none"
           /\ lastResp'.status # 200) =>
          /\ users' = users
          /\ usersessions' = usersessions]_vars

\* C30: a login that ends in 400 or 401 leaves the users table (LastLoginDate
\* and UpdatedAt) and the session table unchanged; when no user has the
\* email it leaves the login-history table unchanged too, so it changes no
\* stored state at all.
C30_DeniedLoginFrame ==
  [][(lastResp'.op = "login" /\ lastResp.op = "none"
        /\ lastResp'.status \in {400, 401}) =>
       /\ users' = users
       /\ usersessions' = usersessions
       /\ (\A i \in 1..Len(users) : users[i].Email # lastResp'.email) =>
            /\ userloginhistory' = userloginhistory
            /\ <<products, conversations, messages>>' =
                 <<products, conversations, messages>>]_vars

\* C30 witness: a wrong password for a stored user was answered 401, and the
\* only trace is one more login-history row
C30_Witness ==
  /\ IsLogin
  /\ lastResp.handler = "login:pascal"
  /\ lastResp.status = 401
  /\ Known # {}
  /\ Len(userloginhistory) = lastResp.preHistory + 1
  /\ Len(usersessions) = lastResp.preSessions

\* C30 witness for the unknown email: a 401 with no user of that email
C30_WitnessUnknown ==
  /\ IsLogin
  /\ lastResp.status = 401
  /\ lastResp.wellFormed
  /\ Known = {}
  /\ Len(users) > 0

\* C25: GET /api/conversations returns to a principal who is not an admin
\* exactly the conversations whose UserId is the principal's id, with a total
\* that counts only those, and returns all conversations to an admin.
C25_ListIsolation ==
  (lastResp.op = "conversations.get" /\ lastResp.status = 200) =>
    /\ lastResp.total = Cardinality(lastResp.listed)
    /\ lastResp.listed =
         IF lastResp.decodedRole = "admin" THEN {c.Id : c \in conversations}
         ELSE {c.Id : c \in {d \in conversations : d.UserId = lastResp.bearer}}

\* C26: ownership is immutable: no step changes the CreatorId of a product
\* or the UserId of a conversation, whatever the body of a PUT carries, so
\* every resource that exists keeps the owner it was created with.
C26_OwnerImmutable ==
  [][/\ \A p \in products, q \in products' :
          p.Id = q.Id => q.CreatorId = p.CreatorId
     /\ \A c \in conversations, d \in conversations' :
          c.Id = d.Id => d.UserId = c.UserId]_vars

\* C26 witness: a PUT whose body names another owner was answered 200, and
\* the resource still has the owner it had
C26_Witness ==
  /\ lastResp.op \in {"product.put", "conversation.put"}
  /\ lastResp.status = 200
  /\ lastResp.bodyOwner # Undefined
  /\ lastResp.bodyOwner # lastResp.owner
  /\ \E r \in productOwners \cup conversationOwners :
        r.Id = lastResp.target /\ r.owner = lastResp.owner

\* C27: under any interleaving of the requests, a product or conversation is
\* updated or deleted, a message is added to a conversation, and messages of
\* a conversation are listed, only for a principal who is an admin or is the
\* owner of the resource at the time of that store call: the gap between the
\* ownership check and the write cannot be exploited.
C27_NoWriteInTheGap ==
  [][(/\ lastResp'.op \in SteppedOps
      /\ lastResp.op = "none"
      /\ \/ lastResp'.op # "messages.get" /\ lastResp'.status \in {200, 201}
         \/ lastResp'.op = "messages.get" /\ lastResp'.listed # {}) =>
       \/ lastResp'.decodedRole = "admin"
       \/ \E r \in OwnersOf(lastResp'.op) :
            r.Id = lastResp'.target /\ r.owner = lastResp'.sub]_vars

\* C27 witness: a client's write went through while another request for the
\* same resource, checked before it, still waits for its own store call
C27_Witness ==
  /\ lastResp.op \in SteppedOps
  /\ lastResp.status \in {200, 201}
  /\ lastResp.decodedRole # "admin"
  /\ \E p \in inflight :
        /\ p.body.req.target = lastResp.target
        /\ p.route # lastResp.op

\* C28: while the store is available, every request to a protected endpoint
\* ends in 200/201, 400, 401, 403 or 404 and never in 500, under any
\* interleaving; in particular an update, delete or message-send whose
\* target a concurrent request deletes between its lookup and its write.
C28_NeverInternalError ==
  lastResp.op \in ProtectedOps =>
    lastResp.status \in {200, 201, 400, 401, 403, 404}

====
